---- MODULE Spec2Model ----
(***************************************************************************)
(* Model of server/api/restify.js: the seven REST routes generated for a   *)
(* mongoose Model, the Joi schemas of the url parameters, and the helpers  *)
(* that turn the url query into the select and query objects for mongodb.  *)
(*                                                                         *)
(* Strings that the code parses (the fields parameter, field names) are    *)
(* sequences of one-character strings.  Objects are functions whose        *)
(* DOMAIN is the set of their keys.                                        *)
(***************************************************************************)
EXTENDS Integers, Sequences, FiniteSets, TLC

VARIABLES
    input,      \* arguments of a direct call of a helper (Model fields, request.query)
    output,     \* what the helpers returned for input
    Model,      \* the mongoose model the routes are generated for
    routes,     \* the array returned by restify(Model), <<>> before the call
    requests,   \* per request: route, position in the handler's promise chain, values
    db,         \* the Model's collection: id -> document or NoDoc
    replies,    \* per request: the arguments of every call of reply, in order
    logged      \* per request: the arguments of every call of logger.error, in order

vars == <<input, output, Model, routes, requests, db, replies, logged>>

(***************************************************************************)
(* Bounds                                                                  *)
(***************************************************************************)
MaxLen == 4         \* longest fields string passed to the helpers directly
MaxFields == 2      \* most fields of a Model passed to the helpers directly
MaxReq == 2         \* requests in flight
MaxId == 1          \* ids that match the id pattern (0 does not match)
MaxUrlLen == 1      \* longest fields string in a dispatched request

(***************************************************************************)
(* Strings                                                                 *)
(***************************************************************************)
Chars == {"a", "b", "-", ","}

RECURSIVE StringsOfLen(_)
StringsOfLen(n) ==
    IF n = 0 THEN {<<>>}
    ELSE {Append(s, c) : s \in StringsOfLen(n - 1), c \in Chars}

StringsUpTo(n) == UNION {StringsOfLen(k) : k \in 0..n}

Range(s) == {s[i] : i \in DOMAIN s}

\* Names of the url parameters and of the Model fields used as inputs
FIELDS == <<"f", "i", "e", "l", "d", "s">>
LIMIT == <<"l", "i", "m", "i", "t">>
OFFSET == <<"o", "f", "f", "s", "e", "t">>
A == <<"a">>
B == <<"b">>
AB == <<"a", "b">>
X == <<"x">>

\* An object without properties
EmptyObj == <<>>

\* key in obj
Has(obj, key) == key \in DOMAIN obj

\* _.get(obj, key, dflt)
Get(obj, key, dflt) == IF Has(obj, key) THEN obj[key] ELSE dflt

\* obj[key] = value
Put(obj, key, value) ==
    [k \in DOMAIN obj \cup {key} |-> IF k = key THEN value ELSE obj[k]]

\* All objects with keys among keys and values among vals
Objects(keys, vals) == UNION {[d -> vals] : d \in SUBSET keys}

\* String.prototype.split(',') : the pieces between the commas, empty ones included
RECURSIVE SplitFrom(_, _, _)
SplitFrom(s, i, cur) ==
    IF i > Len(s) THEN <<cur>>
    ELSE IF s[i] = "," THEN <<cur>> \o SplitFrom(s, i + 1, <<>>)
    ELSE SplitFrom(s, i + 1, Append(cur, s[i]))

split(s) == SplitFrom(s, 1, <<>>)

\* Array.prototype.filter(value => value) on strings: drops the empty ones
filterTruthy(seq) == SelectSeq(seq, LAMBDA t : t # <<>>)

\* _.includes(array, value)
includes(seq, v) == \E i \in DOMAIN seq : seq[i] = v

(***************************************************************************)
(* Joi schemas of the url parameters.  A schema applied to the object obj  *)
(* and the key it is declared for gives [ok, value]: ok says whether the   *)
(* parameter is accepted, value is the validated (converted or default)    *)
(* value that replaces it in request.query.                                *)
(***************************************************************************)
Lower == {"a","b","c","d","e","f","g","h","i","j","k","l","m",
          "n","o","p","q","r","s","t","u","v","w","x","y","z"}
Upper == {"A","B","C","D","E","F","G","H","I","J","K","L","M",
          "N","O","P","Q","R","S","T","U","V","W","X","Y","Z"}
Digits == <<"0","1","2","3","4","5","6","7","8","9">>

\* the character class [a-zA-Z0-9_,]
FieldsCharClass == Lower \cup Upper \cup Range(Digits) \cup {"_", ","}

\* /^[a-zA-Z0-9_,]+$/.test(s)
FieldsRegexTest(s) == Len(s) >= 1 /\ \A i \in DOMAIN s : s[i] \in FieldsCharClass

\* Joi.string().regex(/^[a-zA-Z0-9_,]+$/).default('')
_JoiFields(obj, key) ==
    IF ~Has(obj, key) THEN [ok |-> TRUE, value |-> <<>>]
    ELSE IF FieldsRegexTest(obj[key]) THEN [ok |-> TRUE, value |-> obj[key]]
    ELSE [ok |-> FALSE, value |-> <<>>]

\* The digit c as a number
DigitValue(c) == (CHOOSE i \in DOMAIN Digits : Digits[i] = c) - 1

\* The decimal numeral s[1..n] as a number
RECURSIVE NumeralValue(_, _)
NumeralValue(s, n) ==
    IF n = 0 THEN 0 ELSE 10 * NumeralValue(s, n - 1) + DigitValue(s[n])

IsNumeral(s) == Len(s) >= 1 /\ \A i \in DOMAIN s : s[i] \in Range(Digits)

\* Joi.number().integer() on a url parameter: the string converts to an integer
IsInteger(s) ==
    \/ IsNumeral(s)
    \/ Len(s) >= 2 /\ s[1] = "-" /\ IsNumeral(Tail(s))

ToInteger(s) ==
    IF s[1] = "-" THEN 0 - NumeralValue(Tail(s), Len(s) - 1)
    ELSE NumeralValue(s, Len(s))

LimitMin == 1
LimitMax == 1000
LimitDefault == 10

\* _JoiLimit without the max(1000)
_JoiLimitNoMax(obj, key) ==
    IF ~Has(obj, key) THEN [ok |-> TRUE, value |-> LimitDefault]
    ELSE IF ~IsInteger(obj[key]) THEN [ok |-> FALSE, value |-> 0]
    ELSE IF ToInteger(obj[key]) >= LimitMin
    THEN [ok |-> TRUE, value |-> ToInteger(obj[key])]
    ELSE [ok |-> FALSE, value |-> 0]

\* Joi.number().integer().min(1).max(1000).default(10)
_JoiLimit(obj, key) ==
    IF ~Has(obj, key) THEN [ok |-> TRUE, value |-> LimitDefault]
    ELSE IF ~IsInteger(obj[key]) THEN [ok |-> FALSE, value |-> 0]
    ELSE IF ToInteger(obj[key]) >= LimitMin /\ ToInteger(obj[key]) <= LimitMax
    THEN [ok |-> TRUE, value |-> ToInteger(obj[key])]
    ELSE [ok |-> FALSE, value |-> 0]

OffsetMin == 0
OffsetDefault == 0

\* Joi.number().integer().min(0).default(0)
_JoiOffset(obj, key) ==
    IF ~Has(obj, key) THEN [ok |-> TRUE, value |-> OffsetDefault]
    ELSE IF ~IsInteger(obj[key]) THEN [ok |-> FALSE, value |-> 0]
    ELSE IF ToInteger(obj[key]) >= OffsetMin
    THEN [ok |-> TRUE, value |-> ToInteger(obj[key])]
    ELSE [ok |-> FALSE, value |-> 0]

(***************************************************************************)
(* Select and query objects                                                *)
(***************************************************************************)
\* SelectLoop with the two tests in the other order: exclusion tested first
RECURSIVE SelectLoopExcludeFirst(_, _, _, _)
SelectLoopExcludeFirst(modelFields, urlFields, i, result) ==
    IF i > Len(modelFields) THEN result
    ELSE LET field == modelFields[i]
         IN  IF includes(urlFields, <<"-">> \o field)
             THEN SelectLoopExcludeFirst(modelFields, urlFields, i + 1, Put(result, field, 0))
             ELSE IF includes(urlFields, field)
             THEN SelectLoopExcludeFirst(modelFields, urlFields, i + 1, Put(result, field, 1))
             ELSE SelectLoopExcludeFirst(modelFields, urlFields, i + 1, result)

\* SelectLoop that stops at the first field found in the url
RECURSIVE SelectLoopFirstOnly(_, _, _, _)
SelectLoopFirstOnly(modelFields, urlFields, i, result) ==
    IF i > Len(modelFields) THEN result
    ELSE LET field == modelFields[i]
         IN  IF includes(urlFields, field)
             THEN Put(result, field, 1)
             ELSE IF includes(urlFields, <<"-">> \o field)
             THEN Put(result, field, 0)
             ELSE SelectLoopFirstOnly(modelFields, urlFields, i + 1, result)

\* The body of the _.forEach over modelFields, applied to fields i..Len
RECURSIVE SelectLoop(_, _, _, _)
SelectLoop(modelFields, urlFields, i, result) ==
    IF i > Len(modelFields) THEN result
    ELSE LET field == modelFields[i]
         IN  IF includes(urlFields, field)
             THEN SelectLoop(modelFields, urlFields, i + 1, Put(result, field, 1))
             ELSE IF includes(urlFields, <<"-">> \o field)
             THEN SelectLoop(modelFields, urlFields, i + 1, Put(result, field, 0))
             ELSE SelectLoop(modelFields, urlFields, i + 1, result)

\* _getSelectObjFromFieldsInUrl(Model, request):
\* modelFields is util.getAllModelFields(Model), query is request.query
_getSelectObjFromFieldsInUrl(modelFields, query) ==
    LET urlFieldsStr == Get(query, FIELDS, <<>>)
        urlFields == filterTruthy(split(urlFieldsStr))
    IN  IF Len(urlFields) = 0 THEN EmptyObj
        ELSE SelectLoop(modelFields, urlFields, 1, EmptyObj)

\* QueryLoop that skips only the absent parameters, not the empty ones
RECURSIVE QueryLoopKeepEmpty(_, _, _, _)
QueryLoopKeepEmpty(fields, query, i, queryDb) ==
    IF i > Len(fields) THEN queryDb
    ELSE LET field == fields[i]
         IN  IF ~Has(query, field)
             THEN QueryLoopKeepEmpty(fields, query, i + 1, queryDb)
             ELSE QueryLoopKeepEmpty(fields, query, i + 1, Put(queryDb, field, query[field]))

\* The body of the _.forEach over fields, applied to fields i..Len
RECURSIVE QueryLoop(_, _, _, _)
QueryLoop(fields, query, i, queryDb) ==
    IF i > Len(fields) THEN queryDb
    ELSE LET field == fields[i]
         IN  IF ~Has(query, field) \/ query[field] = <<>>
             THEN QueryLoop(fields, query, i + 1, queryDb)
             ELSE QueryLoop(fields, query, i + 1, Put(queryDb, field, query[field]))

\* _getQueryObjFromFieldsInUrl(Model, request):
\* fields is util.getSchemaModelFields(Model), query is request.query
_getQueryObjFromFieldsInUrl(fields, query) == QueryLoop(fields, query, 1, EmptyObj)

(***************************************************************************)
(* The Model and lib/util                                                  *)
(***************************************************************************)
ID == <<"i", "d">>

\* A mongoose model: its name, the fields of its schema, all its fields
Models ==
    {[name |-> "user", schemaFields |-> <<A>>, allFields |-> <<A, B>>],
     [name |-> "widget", schemaFields |-> <<A>>, allFields |-> <<B, A>>]}

NoModel == [name |-> "", schemaFields |-> <<>>, allFields |-> <<>>]

\* util.getModelName(Model)
getModelName(M) == M.name

\* util.getAllModelFields(Model)
getAllModelFields(M) == M.allFields

\* util.getSchemaModelFields(Model)
getSchemaModelFields(M) == M.schemaFields

\* util.getMongoIdRegexp(): the pattern, as the set of the ids that match it
getMongoIdRegexp == 1..MaxId

\* A Joi schema: its type and, for a string with a pattern, the pattern
JoiSchema(type, regex) == [type |-> type, regex |-> regex]

\* Joi.string().regex(idRegexp)
JoiStringRegex(regex) == JoiSchema("regex", regex)

\* Model.joiValidate: one Joi schema per field of the schema
joiValidate(M) == [f \in Range(M.schemaFields) |-> JoiSchema("field", {})]

(***************************************************************************)
(* Validation of a request by the framework, from the validate part of the *)
(* route's config                                                          *)
(***************************************************************************)
\* {key: value}
Obj(key, value) == Put(EmptyObj, key, value)

\* _.assign({}, a, b)
Assign(a, b) == [k \in DOMAIN a \cup DOMAIN b |-> IF k \in DOMAIN b THEN b[k] ELSE a[k]]

\* validate.params, validate.query or validate.payload: absent, or an object of schemas
NoValidation == [on |-> FALSE, schema |-> EmptyObj]
Schema(obj) == [on |-> TRUE, schema |-> obj]

\* Whether the schema puts its default in place of an absent value
HasDefault(schema) == schema.type \in {"limit", "offset", "fields"}

\* The schema applied to obj[key]
ApplyJoi(schema, obj, key) ==
    CASE schema.type = "limit" -> _JoiLimit(obj, key)
      [] schema.type = "offset" -> _JoiOffset(obj, key)
      [] schema.type = "fields" -> _JoiFields(obj, key)
      [] schema.type = "regex" ->
            [ok |-> Has(obj, key) => obj[key] \in schema.regex, value |-> Get(obj, key, 0)]
      [] schema.type = "field" ->
            [ok |-> Has(obj, key) => obj[key] # <<>>, value |-> Get(obj, key, <<>>)]

\* The object obj validated against a part of validate: unknown keys are not
\* allowed, and the validated values replace the ones of the request
Validate(part, obj) ==
    IF ~part.on THEN [ok |-> TRUE, value |-> obj]
    ELSE LET keys == {k \in DOMAIN part.schema : Has(obj, k) \/ HasDefault(part.schema[k])}
         IN  [ok |-> /\ \A k \in DOMAIN obj : Has(part.schema, k)
                     /\ \A k \in DOMAIN part.schema : ApplyJoi(part.schema[k], obj, k).ok,
              value |-> [k \in keys |-> ApplyJoi(part.schema[k], obj, k).value]]

(***************************************************************************)
(* The routes                                                              *)
(***************************************************************************)
Route(path, method, handler, params, query, payload) ==
    [path |-> path, method |-> method, handler |-> handler,
     validate |-> [params |-> params, query |-> query, payload |-> payload]]

IdParam == "{id}"

_postRoute(M) ==
    Route(<<getModelName(M)>>, "POST", "postHandler",
          NoValidation, NoValidation, Schema(joiValidate(M)))

_getRoute(M) ==
    Route(<<getModelName(M), IdParam>>, "GET", "getHandler",
          Schema(Obj(ID, JoiStringRegex(getMongoIdRegexp))),
          Schema(Obj(FIELDS, JoiSchema("fields", {}))),
          NoValidation)

_putRoute(M) ==
    Route(<<getModelName(M), IdParam>>, "PUT", "putHandler",
          Schema(Obj(ID, JoiStringRegex(getMongoIdRegexp))),
          NoValidation,
          Schema(joiValidate(M)))

\* _deleteRoute without the validation of the id
_deleteRouteNoParams(M) ==
    Route(<<getModelName(M), IdParam>>, "DELETE", "deleteHandler",
          NoValidation, NoValidation, NoValidation)

_deleteRoute(M) ==
    Route(<<getModelName(M), IdParam>>, "DELETE", "deleteHandler",
          Schema(Obj(ID, JoiStringRegex(getMongoIdRegexp))),
          NoValidation,
          NoValidation)

_countRoute(M) ==
    Route(<<getModelName(M), "count">>, "GET", "countHandler",
          NoValidation, Schema(joiValidate(M)), NoValidation)

PagingSchemas ==
    Assign(Obj(LIMIT, JoiSchema("limit", {})),
           Assign(Obj(OFFSET, JoiSchema("offset", {})), Obj(FIELDS, JoiSchema("fields", {}))))

_listRoute(M) ==
    Route(<<getModelName(M), "list">>, "GET", "listHandler",
          NoValidation, Schema(PagingSchemas), NoValidation)

_findRoute(M) ==
    Route(<<getModelName(M), "find">>, "GET", "findHandler",
          NoValidation, Schema(Assign(joiValidate(M), PagingSchemas)), NoValidation)

\* restify with the count route after the find route
restifyCountLast(M) ==
    <<_postRoute(M), _getRoute(M), _putRoute(M), _deleteRoute(M),
      _listRoute(M), _findRoute(M), _countRoute(M)>>

restify(M) ==
    <<_postRoute(M), _getRoute(M), _putRoute(M), _deleteRoute(M),
      _countRoute(M), _listRoute(M), _findRoute(M)>>

(***************************************************************************)
(* The collection and the mongoose calls                                   *)
(***************************************************************************)
\* A document of the collection, or null
Found(doc) == [found |-> TRUE, doc |-> doc]
Null == [found |-> FALSE, doc |-> EmptyObj]

\* What a promise of mongoose settles with
Value(kind, doc, n, docs) == [kind |-> kind, name |-> "", doc |-> doc, n |-> n, docs |-> docs]
Error(name) == [kind |-> "error", name |-> name, doc |-> Null, n |-> 0, docs |-> <<>>]
NoValue == Value("none", Null, 0, <<>>)

\* A call of mongoose that has not been executed yet
Call(op, id, data, conditions, select, limit, skip, options) ==
    [op |-> op, id |-> id, data |-> data, conditions |-> conditions, select |-> select,
     limit |-> limit, skip |-> skip, options |-> options]
NoOptions == [new |-> FALSE]
NoCall == Call("none", 0, EmptyObj, EmptyObj, EmptyObj, 0, 0, NoOptions)

\* The document with the id, null when there is none
Lookup(id) == IF id \in DOMAIN db THEN db[id] ELSE Null

\* Query.select(select): the fields with 1 when there are some, else all but the ones with 0
Project(d, select) ==
    IF ~d.found \/ DOMAIN select = {} THEN d
    ELSE IF \E k \in DOMAIN select : select[k] = 1
    THEN Found([k \in {f \in DOMAIN d.doc : Has(select, f) /\ select[f] = 1} |-> d.doc[k]])
    ELSE Found([k \in {f \in DOMAIN d.doc : ~Has(select, f)} |-> d.doc[k]])

\* The document satisfies the equality conditions
Matches(d, conditions) ==
    d.found /\ \A k \in DOMAIN conditions : Has(d.doc, k) /\ d.doc[k] = conditions[k]

\* The ids of the documents that satisfy the conditions, in the order of the collection
RECURSIVE MatchingFrom(_, _)
MatchingFrom(i, conditions) ==
    IF i > MaxId THEN <<>>
    ELSE (IF Matches(db[i], conditions) THEN <<i>> ELSE <<>>) \o MatchingFrom(i + 1, conditions)

\* Model.find(conditions).select(select).limit(limit).skip(skip)
FindDocs(conditions, select, limit, skip) ==
    LET ids == MatchingFrom(1, conditions)
        last == IF skip + limit < Len(ids) THEN skip + limit ELSE Len(ids)
        page == SubSeq(ids, skip + 1, last)
    IN  [i \in DOMAIN page |-> Project(db[page[i]], select)]

\* Model.findByIdAndUpdate: the fields of data replace the ones of the document
Update(d, data) == Found(Assign(d.doc, data))

(***************************************************************************)
(* The handlers: what each one calls on the Model for a validated request  *)
(***************************************************************************)
postHandler(M, request) ==
    Call("save", 0, request.payload, EmptyObj, EmptyObj, 0, 0, NoOptions)

getHandler(M, request) ==
    Call("findById", request.params[ID], EmptyObj, EmptyObj,
         _getSelectObjFromFieldsInUrl(getAllModelFields(M), request.query), 0, 0, NoOptions)

\* the options of putHandler left at the default of mongoose
putOptionsDefault == [new |-> FALSE]

putOptions == [new |-> TRUE]

putHandler(M, request) ==
    Call("findByIdAndUpdate", request.params[ID], request.payload, EmptyObj, EmptyObj,
         0, 0, putOptions)

deleteHandler(M, request) ==
    Call("remove", request.params[ID], EmptyObj, EmptyObj, EmptyObj, 0, 0, NoOptions)

countHandler(M, request) ==
    Call("count", 0, EmptyObj,
         _getQueryObjFromFieldsInUrl(getSchemaModelFields(M), request.query),
         EmptyObj, 0, 0, NoOptions)

listHandler(M, request) ==
    Call("find", 0, EmptyObj, EmptyObj,
         _getSelectObjFromFieldsInUrl(getAllModelFields(M), request.query),
         request.query[LIMIT], request.query[OFFSET], NoOptions)

findHandler(M, request) ==
    Call("find", 0, EmptyObj,
         _getQueryObjFromFieldsInUrl(getSchemaModelFields(M), request.query),
         _getSelectObjFromFieldsInUrl(getAllModelFields(M), request.query),
         request.query[LIMIT], request.query[OFFSET], NoOptions)

\* The handler of a route applied to a request
Handler(name, M, request) ==
    CASE name = "postHandler" -> postHandler(M, request)
      [] name = "getHandler" -> getHandler(M, request)
      [] name = "putHandler" -> putHandler(M, request)
      [] name = "deleteHandler" -> deleteHandler(M, request)
      [] name = "countHandler" -> countHandler(M, request)
      [] name = "listHandler" -> listHandler(M, request)
      [] name = "findHandler" -> findHandler(M, request)

(***************************************************************************)
(* Requests                                                                *)
(***************************************************************************)
Requests == DOMAIN requests

HttpRequest(params, query, payload) == [params |-> params, query |-> query, payload |-> payload]

IdParams == {Obj(ID, id) : id \in 0..MaxId}

FieldValues == {<<"v">>, <<"w">>}

Payloads == Objects({A}, FieldValues) \cup {Obj(X, <<"v">>)}

\* The collections the server can start with
Collections == [1..MaxId -> {Null, Found(Obj(A, <<"v">>))}]

FieldsQueries == {EmptyObj} \cup {Obj(FIELDS, s) : s \in StringsUpTo(MaxUrlLen)}

LimitInputs ==
    {<<"0">>, <<"1">>, <<"1", "0", "0", "0">>, <<"1", "0", "0", "1">>, <<"x">>}

OffsetInputs == {<<"-", "1">>, <<"0">>, <<"1">>}

PagingQueries ==
    {Assign(l, Assign(o, f)) :
        l \in {EmptyObj} \cup {Obj(LIMIT, v) : v \in LimitInputs},
        o \in {EmptyObj} \cup {Obj(OFFSET, v) : v \in OffsetInputs},
        f \in FieldsQueries}

FilterQueries == Objects({A}, FieldValues \cup {<<>>}) \cup {Obj(X, <<"v">>)}

\* The requests the framework can route to the handler
RequestsOf(name) ==
    CASE name = "postHandler" ->
            {HttpRequest(EmptyObj, EmptyObj, p) : p \in Payloads}
      [] name = "getHandler" ->
            {HttpRequest(i, q, EmptyObj) : i \in IdParams, q \in FieldsQueries}
      [] name = "putHandler" ->
            {HttpRequest(i, EmptyObj, p) : i \in IdParams, p \in Payloads}
      [] name = "deleteHandler" ->
            {HttpRequest(i, EmptyObj, EmptyObj) : i \in IdParams}
      [] name = "countHandler" ->
            {HttpRequest(EmptyObj, q, EmptyObj) : q \in FilterQueries}
      [] name = "listHandler" ->
            {HttpRequest(EmptyObj, q, EmptyObj) : q \in PagingQueries}
      [] name = "findHandler" ->
            {HttpRequest(EmptyObj, Assign(q, f), EmptyObj) :
                q \in PagingQueries, f \in FilterQueries}

\* The request passes the validation of the route
Accepted(route, req) ==
    /\ Validate(route.validate.params, req.params).ok
    /\ Validate(route.validate.query, req.query).ok
    /\ Validate(route.validate.payload, req.payload).ok

\* The request as the handler gets it
Validated(route, req) ==
    HttpRequest(Validate(route.validate.params, req.params).value,
                Validate(route.validate.query, req.query).value,
                Validate(route.validate.payload, req.payload).value)

\* A request: pc is its position (new, rejected, pending, resolved, rejectedByStore,
\* thrown, done), route the index of its route, id and query what the client sent,
\* call the pending call of mongoose, value what the promise chain carries
Request(pc, route, id, query, call, value, after) ==
    [pc |-> pc, route |-> route, id |-> id, query |-> query, call |-> call,
     value |-> value, after |-> after]

NewRequest == Request("new", 0, 0, EmptyObj, NoCall, NoValue, Null)

RawId(req) == Get(req.params, ID, 0)

Settled(r, pc, value, after) ==
    Request(pc, requests[r].route, requests[r].id, EmptyObj, NoCall, value, after)

(***************************************************************************)
(* Direct calls of the helpers (they are exported for the tests)           *)
(***************************************************************************)
FieldNames == {A, B, AB}

\* The lists of at most n distinct field names
RECURSIVE FieldListsOfLen(_)
FieldListsOfLen(n) ==
    IF n = 0 THEN {<<>>}
    ELSE {Append(l, f) : l \in FieldListsOfLen(n - 1), f \in FieldNames}

FieldLists ==
    {l \in UNION {FieldListsOfLen(k) : k \in 0..MaxFields} :
        \A i, j \in DOMAIN l : i # j => l[i] # l[j]}

QueryValues == {<<>>, <<"v">>, <<"w">>}

SelectInputs ==
    {[kind |-> "select", fields |-> l, query |-> q] :
        l \in FieldLists,
        q \in {EmptyObj} \cup {Put(EmptyObj, FIELDS, s) : s \in StringsUpTo(MaxLen)}}

QueryInputs ==
    {[kind |-> "query", fields |-> l, query |-> q] :
        l \in FieldLists, q \in Objects({A, B, X}, QueryValues)}

NotCalled == [called |-> FALSE, ok |-> FALSE, value |-> EmptyObj]
Returned(ok, v) == [called |-> TRUE, ok |-> ok, value |-> v]

NoOutput == [select |-> NotCalled, joi |-> NotCalled, queryDb |-> NotCalled]

Idle == [kind |-> "idle", fields |-> <<>>, query |-> EmptyObj]

CallGetSelectObj ==
    /\ input.kind = "select"
    /\ ~output.select.called
    /\ output' = [output EXCEPT !.select =
                    Returned(TRUE, _getSelectObjFromFieldsInUrl(input.fields, input.query))]
    /\ UNCHANGED <<input, Model, routes, requests, db, replies, logged>>

CallJoiFields ==
    /\ input.kind = "select"
    /\ ~output.joi.called
    /\ output' = [output EXCEPT !.joi =
                    LET r == _JoiFields(input.query, FIELDS)
                    IN  Returned(r.ok, r.value)]
    /\ UNCHANGED <<input, Model, routes, requests, db, replies, logged>>

CallGetQueryObj ==
    /\ input.kind = "query"
    /\ ~output.queryDb.called
    /\ output' = [output EXCEPT !.queryDb =
                    Returned(TRUE, _getQueryObjFromFieldsInUrl(input.fields, input.query))]
    /\ UNCHANGED <<input, Model, routes, requests, db, replies, logged>>

InitBuild ==
    /\ input \in SelectInputs \cup QueryInputs
    /\ output = NoOutput
    /\ Model = NoModel
    /\ routes = <<>>
    /\ requests = <<>>
    /\ db = <<>>
    /\ replies = <<>>
    /\ logged = <<>>

NextBuild == CallGetSelectObj \/ CallJoiFields \/ CallGetQueryObj

SpecBuild == InitBuild /\ [][NextBuild]_vars

(***************************************************************************)
(* The server: the routes are generated, the framework validates each      *)
(* request and calls the handler, mongoose settles the call, and the       *)
(* then/catch of the handler calls reply                                   *)
(***************************************************************************)
Restify ==
    /\ routes = <<>>
    /\ routes' = restify(Model)
    /\ UNCHANGED <<input, output, Model, requests, db, replies, logged>>

\* The next request to arrive: requests are numbered in the order of arrival
Arrives(r) == requests[r].pc = "new" /\ \A q \in 1..(r - 1) : requests[q].pc # "new"

\* The framework rejects a request that fails the validation of its route
Reject(r) ==
    /\ Arrives(r)
    /\ \E i \in DOMAIN routes :
        \E req \in RequestsOf(routes[i].handler) :
            /\ ~Accepted(routes[i], req)
            /\ requests' = [requests EXCEPT ![r] =
                    Request("rejected", i, RawId(req), EmptyObj, NoCall, NoValue, Null)]
    /\ UNCHANGED <<input, output, Model, routes, db, replies, logged>>

\* The framework calls the handler with a validated request: the handler
\* builds its call of mongoose and attaches then(reply) and catch
Dispatch(r, name) ==
    /\ Arrives(r)
    /\ \E i \in DOMAIN routes :
        /\ routes[i].handler = name
        /\ \E req \in RequestsOf(name) :
            /\ Accepted(routes[i], req)
            /\ requests' = [requests EXCEPT ![r] =
                    Request("pending", i, RawId(req), req.query,
                            Handler(name, Model, Validated(routes[i], req)), NoValue, Null)]
    /\ UNCHANGED <<input, output, Model, routes, db, replies, logged>>

PostRequest(r) == Dispatch(r, "postHandler")
GetRequest(r) == Dispatch(r, "getHandler")
PutRequest(r) == Dispatch(r, "putHandler")
DeleteRequest(r) == Dispatch(r, "deleteHandler")
CountRequest(r) == Dispatch(r, "countHandler")
ListRequest(r) == Dispatch(r, "listHandler")
FindRequest(r) == Dispatch(r, "findHandler")

Pending(r, op) == requests[r].pc = "pending" /\ requests[r].call.op = op

\* user.save() resolves with the saved document, under an id the store assigns
SaveResolves(r) ==
    /\ Pending(r, "save")
    /\ \E id \in 1..MaxId :
        /\ ~db[id].found
        /\ db' = [db EXCEPT ![id] = Found(requests[r].call.data)]
        /\ requests' = [requests EXCEPT ![r] =
                Settled(r, "resolved", Value("doc", db'[id], 0, <<>>), Null)]
    /\ UNCHANGED <<input, output, Model, routes, replies, logged>>

\* Model.findById(id).select(select) resolves with the document or null
FindByIdResolves(r) ==
    /\ Pending(r, "findById")
    /\ requests' = [requests EXCEPT ![r] =
            Settled(r, "resolved",
                    Value("doc", Project(Lookup(requests[r].call.id), requests[r].call.select),
                          0, <<>>),
                    Null)]
    /\ UNCHANGED <<input, output, Model, routes, db, replies, logged>>

\* Model.findByIdAndUpdate(id, data, options) resolves with null when there is
\* no such document, else with the document before or, with new: true, after
\* the update
FindByIdAndUpdateResolves(r) ==
    /\ Pending(r, "findByIdAndUpdate")
    /\ LET c == requests[r].call
           before == Lookup(c.id)
           after == IF before.found THEN Update(before, c.data) ELSE Null
       IN  /\ db' = IF before.found THEN [db EXCEPT ![c.id] = after] ELSE db
           /\ requests' = [requests EXCEPT ![r] =
                  Settled(r, "resolved",
                          Value("doc", IF c.options.new THEN after ELSE before, 0, <<>>),
                          after)]
    /\ UNCHANGED <<input, output, Model, routes, replies, logged>>

\* Model.remove({_id: id}) resolves with the number of documents removed
RemoveResolves(r) ==
    /\ Pending(r, "remove")
    /\ LET c == requests[r].call
       IN  /\ db' = IF Lookup(c.id).found THEN [db EXCEPT ![c.id] = Null] ELSE db
           /\ requests' = [requests EXCEPT ![r] =
                  Settled(r, "resolved",
                          Value("removed", Null, IF Lookup(c.id).found THEN 1 ELSE 0, <<>>),
                          Null)]
    /\ UNCHANGED <<input, output, Model, routes, replies, logged>>

\* Model.count(queryObj) resolves with the number of matching documents
CountResolves(r) ==
    /\ Pending(r, "count")
    /\ requests' = [requests EXCEPT ![r] =
            Settled(r, "resolved",
                    Value("count", Null, Len(MatchingFrom(1, requests[r].call.conditions)), <<>>),
                    Null)]
    /\ UNCHANGED <<input, output, Model, routes, db, replies, logged>>

\* Model.find(...) resolves with the page of matching documents
FindResolves(r) ==
    /\ Pending(r, "find")
    /\ LET c == requests[r].call
       IN  requests' = [requests EXCEPT ![r] =
               Settled(r, "resolved",
                       Value("docs", Null, 0, FindDocs(c.conditions, c.select, c.limit, c.skip)),
                       Null)]
    /\ UNCHANGED <<input, output, Model, routes, db, replies, logged>>

\* Any call of mongoose can fail: the promise is rejected with the store's error
StoreRejects(r) ==
    /\ requests[r].pc = "pending"
    /\ requests' = [requests EXCEPT ![r] = Settled(r, "rejectedByStore", Error("MongoError"), Null)]
    /\ UNCHANGED <<input, output, Model, routes, db, replies, logged>>

\* .then(reply): reply is called with the value and returns
ThenReply(r) ==
    /\ requests[r].pc = "resolved"
    /\ replies' = [replies EXCEPT ![r] = Append(@, requests[r].value)]
    /\ requests' = [requests EXCEPT ![r].pc = "done"]
    /\ UNCHANGED <<input, output, Model, routes, db, logged>>

\* .then(reply): reply is called with the value and throws, which rejects the
\* promise that the catch is attached to
ThenReplyThrows(r) ==
    /\ requests[r].pc = "resolved"
    /\ replies' = [replies EXCEPT ![r] = Append(@, requests[r].value)]
    /\ requests' = [requests EXCEPT ![r] =
            Settled(r, "thrown", Error("ReplyError"), requests[r].after)]
    /\ UNCHANGED <<input, output, Model, routes, db, logged>>

\* .catch: reply(err) returns, then logger.error(err)
CatchReply(r) ==
    /\ requests[r].pc \in {"rejectedByStore", "thrown"}
    /\ replies' = [replies EXCEPT ![r] = Append(@, requests[r].value)]
    /\ logged' = [logged EXCEPT ![r] = Append(@, requests[r].value)]
    /\ requests' = [requests EXCEPT ![r].pc =
            IF @ = "thrown" THEN "doneAfterThrow" ELSE "doneAfterError"]
    /\ UNCHANGED <<input, output, Model, routes, db>>

\* .catch: reply(err) throws, so logger.error(err) is not reached
CatchReplyThrows(r) ==
    /\ requests[r].pc \in {"rejectedByStore", "thrown"}
    /\ replies' = [replies EXCEPT ![r] = Append(@, requests[r].value)]
    /\ requests' = [requests EXCEPT ![r].pc =
            IF @ = "thrown" THEN "doneAfterThrow" ELSE "doneAfterError"]
    /\ UNCHANGED <<input, output, Model, routes, db, logged>>

\* A server that gets n requests
InitServer(n) ==
    /\ input = Idle
    /\ output = NoOutput
    /\ Model \in Models
    /\ routes = <<>>
    /\ requests = [r \in 1..n |-> NewRequest]
    /\ db \in Collections
    /\ replies = [r \in 1..n |-> <<>>]
    /\ logged = [r \in 1..n |-> <<>>]

Init == InitServer(MaxReq)

Next ==
    \/ Restify
    \/ \E r \in Requests : Reject(r)
    \/ \E r \in Requests : PostRequest(r)
    \/ \E r \in Requests : GetRequest(r)
    \/ \E r \in Requests : PutRequest(r)
    \/ \E r \in Requests : DeleteRequest(r)
    \/ \E r \in Requests : CountRequest(r)
    \/ \E r \in Requests : ListRequest(r)
    \/ \E r \in Requests : FindRequest(r)
    \/ \E r \in Requests : SaveResolves(r)
    \/ \E r \in Requests : FindByIdResolves(r)
    \/ \E r \in Requests : FindByIdAndUpdateResolves(r)
    \/ \E r \in Requests : RemoveResolves(r)
    \/ \E r \in Requests : CountResolves(r)
    \/ \E r \in Requests : FindResolves(r)
    \/ \E r \in Requests : StoreRejects(r)
    \/ \E r \in Requests : ThenReply(r)
    \/ \E r \in Requests : ThenReplyThrows(r)
    \/ \E r \in Requests : CatchReply(r)
    \/ \E r \in Requests : CatchReplyThrows(r)

\* Requests handled concurrently
Spec == Init /\ [][Next]_vars

\* One request
InitOne == InitServer(1)

SpecOne == InitOne /\ [][Next]_vars

(***************************************************************************)
(* Properties of the helpers                                               *)
(***************************************************************************)
\* The tokens of a fields string: its maximal non-empty comma-free pieces
IsToken(s, i, j) ==
    /\ i <= j
    /\ \A k \in i..j : s[k] # ","
    /\ i = 1 \/ s[i - 1] = ","
    /\ j = Len(s) \/ s[j + 1] = ","

Tokens(s) ==
    {SubSeq(s, p[1], p[2]) : p \in {q \in (DOMAIN s) \X (DOMAIN s) : IsToken(s, q[1], q[2])}}

Exclude(field) == <<"-">> \o field

IsExcludeToken(t) == Len(t) >= 1 /\ t[1] = "-"

\* The token with an optional leading '-' removed
BaseName(t) == IF IsExcludeToken(t) THEN Tail(t) ELSE t

SelectReturned == input.kind = "select" /\ output.select.called
UrlFields == Tokens(Get(input.query, FIELDS, <<>>))
Declared == Range(input.fields)

\* C1: the filter built by _getQueryObjFromFieldsInUrl has key k iff k is a
\* declared field and the query has a non-empty value under k, and it stores
\* that value unchanged; query keys that are not declared never appear.
C1_FilterExact ==
    (input.kind = "query" /\ output.queryDb.called) =>
        LET Q == input.query
            R == output.queryDb.value
        IN  /\ DOMAIN R = {k \in Declared : Has(Q, k) /\ Q[k] # <<>>}
            /\ \A k \in DOMAIN R : R[k] = Q[k]

\* A filter was built from a query with an undeclared key, a declared key with
\* an empty value and a declared key with a value
C1_Witness ==
    /\ input.kind = "query" /\ output.queryDb.called
    /\ \E k \in DOMAIN input.query : k \notin Declared /\ input.query[k] # <<>>
    /\ \E k \in DOMAIN input.query : k \in Declared /\ input.query[k] = <<>>
    /\ \E k \in DOMAIN output.queryDb.value : output.queryDb.value[k] = <<"w">>

\* C2 as stated: the projection has exactly the base names of the tokens that
\* are declared, every include token mapped to 1 and every exclude token to 0.
C2_EveryTokenMapped ==
    SelectReturned =>
        LET R == output.select.value
        IN  /\ DOMAIN R = {BaseName(t) : t \in UrlFields} \cap Declared
            /\ \A t \in UrlFields :
                   BaseName(t) \in Declared =>
                       /\ BaseName(t) \in DOMAIN R
                       /\ R[BaseName(t)] = IF IsExcludeToken(t) THEN 0 ELSE 1

\* C2 amended: the projection has exactly the declared fields whose include or
\* exclude token is in the fields string; a field maps to 1 when its include
\* token is there and to 0 when only its exclude token is.
C2_ProjectionExact ==
    SelectReturned =>
        LET R == output.select.value
        IN  /\ DOMAIN R = {f \in Declared : f \in UrlFields \/ Exclude(f) \in UrlFields}
            /\ \A f \in DOMAIN R : R[f] = IF f \in UrlFields THEN 1 ELSE 0

\* A projection with an included field and an excluded field, from a Model
\* with these two fields
C2_Witness ==
    /\ SelectReturned
    /\ Len(input.fields) = 2
    /\ \E f, g \in DOMAIN output.select.value :
           output.select.value[f] = 1 /\ output.select.value[g] = 0

\* C10: a declared field whose include and exclude tokens are both in the
\* fields string has one entry in the projection, and it is 1.
C10_IncludeWins ==
    SelectReturned =>
        \A f \in Declared :
            (f \in UrlFields /\ Exclude(f) \in UrlFields) =>
                (f \in DOMAIN output.select.value /\ output.select.value[f] = 1)

\* The exclude token comes first in the string and the field still maps to 1
C10_Witness ==
    /\ SelectReturned
    /\ input.query = Put(EmptyObj, FIELDS, <<"-", "a", ",", "a">>)
    /\ A \in DOMAIN output.select.value
    /\ output.select.value[A] = 1

\* C6: a fields value made of exclude tokens of declared fields is accepted
\* by _JoiFields.
C6_ExcludeAccepted ==
    (/\ input.kind = "select" /\ output.joi.called
     /\ Has(input.query, FIELDS)
     /\ UrlFields # {}
     /\ \A t \in UrlFields : IsExcludeToken(t) /\ BaseName(t) \in Declared)
    => output.joi.ok

(***************************************************************************)
(* Properties of the routes and of the handlers                            *)
(***************************************************************************)
HasIdParam(route) == Len(route.path) = 2 /\ route.path[2] = IdParam

HandlerOf(r) == IF requests[r].route = 0 THEN "" ELSE routes[requests[r].route].handler

Finished(r) == requests[r].pc \in {"done", "doneAfterThrow", "doneAfterError"}

\* C3: restify(Model) returns exactly 7 routes, in the order POST /name,
\* GET /name/{id}, PUT /name/{id}, DELETE /name/{id}, GET /name/count,
\* GET /name/list, GET /name/find, with the name of the Model.
C3_SevenRoutes ==
    routes # <<>> =>
        [i \in DOMAIN routes |-> <<routes[i].method, routes[i].path>>] =
            << <<"POST", <<Model.name>>>>,
               <<"GET", <<Model.name, "{id}">>>>,
               <<"PUT", <<Model.name, "{id}">>>>,
               <<"DELETE", <<Model.name, "{id}">>>>,
               <<"GET", <<Model.name, "count">>>>,
               <<"GET", <<Model.name, "list">>>>,
               <<"GET", <<Model.name, "find">>>> >>

\* The routes of the widget model were generated and one of them served a request
C3_Witness ==
    /\ Len(routes) = 7
    /\ Model.name = "widget"
    /\ \E r \in Requests : Finished(r) /\ requests[r].route = 7

\* C4 as stated: reply is called exactly once for every request the handler
\* got: never twice, and once when the promise chain has ended.
C4_ReplyExactlyOnce ==
    \A r \in Requests :
        /\ Len(replies[r]) <= 1
        /\ Finished(r) => Len(replies[r]) = 1

\* C5 as stated: when the store call fails, its error is passed unchanged to
\* reply and the same error is written to the logger.
C5_StoreErrorRepliedAndLogged ==
    \A r \in Requests :
        requests[r].pc = "doneAfterError" =>
            /\ replies[r] = <<Error("MongoError")>>
            /\ logged[r] = <<Error("MongoError")>>

\* C7: the schema of the id parameter of the routes with {id} is the id
\* pattern, and a request to them whose id does not match it is rejected:
\* the handler does not run, no call of the store is made, reply is not called.
C7_IdValidated ==
    /\ \A i \in DOMAIN routes :
           HasIdParam(routes[i]) =>
               routes[i].validate.params = Schema(Obj(ID, JoiStringRegex(getMongoIdRegexp)))
    /\ \A r \in Requests :
           (/\ requests[r].route # 0
            /\ HasIdParam(routes[requests[r].route])
            /\ requests[r].id \notin getMongoIdRegexp) =>
               /\ requests[r].pc = "rejected"
               /\ requests[r].call = NoCall
               /\ replies[r] = <<>>

\* A DELETE with an id that does not match the pattern was rejected
C7_Witness ==
    \E r \in Requests :
        /\ requests[r].pc = "rejected"
        /\ HandlerOf(r) = "deleteHandler"
        /\ requests[r].id \notin getMongoIdRegexp

\* C8: the limit and the skip of every find of the list and find routes are
\* the validated ones: the limit is between 1 and 1000, the skip at least 0,
\* they are the numbers the client sent, and 10 and 0 when it sent none.
C8_PagingValidated ==
    \A r \in Requests :
        (requests[r].pc = "pending" /\ HandlerOf(r) \in {"listHandler", "findHandler"}) =>
            LET c == requests[r].call
                q == requests[r].query
            IN  /\ c.limit \in 1..1000
                /\ c.skip >= 0
                /\ c.limit = IF Has(q, LIMIT) THEN ToInteger(q[LIMIT]) ELSE 10
                /\ c.skip = IF Has(q, OFFSET) THEN ToInteger(q[OFFSET]) ELSE 0

\* A find request without limit and offset is pending with limit 10 and skip 0
C8_Witness ==
    \E r \in Requests :
        /\ requests[r].pc = "pending"
        /\ HandlerOf(r) = "findHandler"
        /\ ~Has(requests[r].query, LIMIT) /\ ~Has(requests[r].query, OFFSET)
        /\ requests[r].call.limit = 10 /\ requests[r].call.skip = 0

\* C9: when the update of a PUT succeeds, reply gets the document as it is
\* after this update.
C9_PutRepliesUpdated ==
    \A r \in Requests :
        (/\ HandlerOf(r) = "putHandler"
         /\ replies[r] # <<>>
         /\ replies[r][1].kind = "doc") =>
            replies[r][1].doc = requests[r].after

\* Two PUT requests updated the same document with different values and each
\* got its own value back
C9_Witness ==
    \E r, q \in Requests :
        /\ HandlerOf(r) = "putHandler" /\ HandlerOf(q) = "putHandler"
        /\ replies[r] # <<>> /\ replies[q] # <<>>
        /\ replies[r][1] = Value("doc", Found(Obj(A, <<"v">>)), 0, <<>>)
        /\ replies[q][1] = Value("doc", Found(Obj(A, <<"w">>)), 0, <<>>)

====
